---- MODULE Spec2Model ----
(***************************************************************************)
(* A model of fast_api_logger (the logging core of DeployService):         *)
(*   context.py    the ambient context store (contextvars)                 *)
(*   logger.py     SafeLogger (extra sanitization) and configure_logging   *)
(*   formatters.py TextFormatter and JsonFormatter                         *)
(*   handlers.py   StreamSafeConsoleHandler and the rotating file sinks    *)
(*                 (logging.handlers.TimedRotatingFileHandler)             *)
(* Python values are modelled as strings ("1", "x", "None"), dicts as      *)
(* functions from keys to values, and a dict whose iteration order matters *)
(* (the extra mapping of a logging call) as a sequence of <<key, value>>   *)
(* pairs in insertion order.                                               *)
(***************************************************************************)
EXTENDS Integers, Sequences, FiniteSets, TLC

VARIABLES
    status,     \* status[f]: "new" (not started), "run" (the root flow or
                \*            an asyncio task), "thread" (a running thread),
                \*            "done"
    logctx,     \* logctx[f]: value of ContextVar _log_context in f's Context
                \*            (a reference to a dict object, or NoneRef)
    streaming,  \* streaming[f]: value of ContextVar _streaming in f's Context
    heap,       \* heap[r]: contents of dict object r
    loggers,    \* loggers[name]: the logging.Logger of that name
    log,        \* the SafeLogger the last configure_logging call returned
    now,        \* the clock (time.time()), in ticks
    disk,       \* disk[kind]: the archives next to the file of that sink,
                \*             each named by the time of its suffix
    last        \* observation of the last operation (a history variable)

logvars == <<loggers, log, now, disk>>
vars == <<status, logctx, streaming, heap, loggers, log, now, disk, last>>

(***************************************************************************)
(* Bounds                                                                  *)
(***************************************************************************)
MaxFlows == 3

Flows == 1..MaxFlows
\* the flow the module is imported in
Root == 1
\* A dict object is named after the first flow whose Context refers to it
\* (identities are arbitrary, so the renaming loses nothing); Fresh names the
\* object a call is building.
Fresh == MaxFlows + 1
Refs == 1..Fresh
\* the ContextVar's default, None
NoneRef == 0

None == "None"
EmptyDict == [k \in {} |-> None]
CtxKeys == {"a", "name"}
CtxVals == {"1", "2"}

Dicts(K, V) == UNION {[D -> V] : D \in SUBSET K}

\* keyword arguments of set_context over the keys K: a value may be None
Kwargs(K) == Dicts(K, CtxVals \cup {None})
\* arguments of set_context_dict over the keys K
DataDicts(K) == Dicts(K, CtxVals)
\* arguments of remove_context over the keys K (their order does not matter)
KeyTuples(K) == SUBSET K
\* the keys the concurrent flows of SpecCtx use
FlowKeys == {"a"}

NoOp == [op |-> "none"]

(***************************************************************************)
(* context.py: the ambient context store                                   *)
(***************************************************************************)

\* A dict object not referred to by any Context: what dict(...) or {} creates.
NewRef == Fresh

\* The first flow whose Context refers to object r
NameOf(lc, r) == CHOOSE g \in Flows : lc[g] = r /\ \A h \in Flows : lc[h] = r => g <= h

\* The Contexts lc and the objects hp once every object is named after the
\* first flow referring to it; objects no Context refers to are collected.
Collected(lc, hp) ==
    [lc |-> [g \in Flows |-> IF lc[g] = NoneRef THEN NoneRef ELSE NameOf(lc, lc[g])],
     hp |-> [q \in Refs |->
                IF q \in Flows /\ lc[q] # NoneRef /\ NameOf(lc, lc[q]) = q
                THEN hp[lc[q]] ELSE EmptyDict]]

\* Truthiness of the ContextVar's value: None and {} are falsy.
Truthy(f) == logctx[f] # NoneRef /\ heap[logctx[f]] # EmptyDict

\* get_context(): the contents of the dict it returns
get_context(f) == IF Truthy(f) THEN heap[logctx[f]] ELSE EmptyDict

\* A get_context that hands out the stored dict itself instead of a copy.
get_context_ref_shared(f) == IF Truthy(f) THEN logctx[f] ELSE NewRef

\* get_context(): the identity of the dict it returns: dict(ctx) and {} are
\* both new objects
get_context_ref(f) == NewRef

\* _log_context.set(obj) in flow f, obj being dict object r with contents d.
\* Objects no Context refers to any more are collected.
SetVar(f, r, d) ==
    LET c == Collected([logctx EXCEPT ![f] = r], [heap EXCEPT ![r] = d])
    IN  /\ logctx' = c.lc
        /\ heap' = c.hp

Running(f) == status[f] \in {"run", "thread"}

\* The dict after the merge loop of set_context
Merged(ctx, kwargs) ==
    LET set == {k \in DOMAIN kwargs : kwargs[k] # None}
    IN  [k \in DOMAIN ctx \cup set |-> IF k \in set THEN kwargs[k] ELSE ctx[k]]

\* A merge loop without the `if v is None: continue` test.
set_context_keep_none(f, kwargs) ==
    /\ Running(f)
    /\ SetVar(f, get_context_ref(f),
              [k \in DOMAIN get_context(f) \cup DOMAIN kwargs |->
                  IF k \in DOMAIN kwargs THEN kwargs[k] ELSE get_context(f)[k]])
    /\ UNCHANGED <<status, streaming>>

set_context(f, kwargs) ==
    /\ Running(f)
    /\ SetVar(f, get_context_ref(f), Merged(get_context(f), kwargs))
    /\ UNCHANGED <<status, streaming>>

set_context_dict(f, data) ==
    /\ Running(f)
    /\ SetVar(f, NewRef, data)
    /\ UNCHANGED <<status, streaming>>

remove_context(f, keys) ==
    /\ Running(f)
    /\ IF keys = {}
       THEN UNCHANGED <<logctx, heap>>
       ELSE SetVar(f, get_context_ref(f),
                   [k \in DOMAIN get_context(f) \ keys |-> get_context(f)[k]])
    /\ UNCHANGED <<status, streaming>>

\* A clear_context that resets the streaming flag with the fields.
clear_context_resets_streaming(f) ==
    /\ Running(f)
    /\ SetVar(f, NewRef, EmptyDict)
    /\ streaming' = [streaming EXCEPT ![f] = FALSE]
    /\ UNCHANGED status

clear_context(f) ==
    /\ Running(f)
    /\ SetVar(f, NewRef, EmptyDict)
    /\ UNCHANGED <<status, streaming>>

set_streaming(f, b) ==
    /\ Running(f)
    /\ streaming' = [streaming EXCEPT ![f] = b]
    /\ UNCHANGED <<status, logctx, heap>>

is_streaming(f) == streaming[f]

\* What a flow can observe of the store
Obs(f) == [ctx |-> get_context(f), streaming |-> is_streaming(f)]

\* A concurrent sub-flow (an asyncio task) is started by flow p: it runs in a
\* copy of p's Context, which holds the same references as p's.
SpawnTask(p, c) ==
    /\ Running(p)
    /\ status[c] = "new"
    /\ \A d \in Flows : status[d] = "new" => c <= d
    /\ status' = [status EXCEPT ![c] = "run"]
    /\ logctx' = [logctx EXCEPT ![c] = logctx[p]]
    /\ streaming' = [streaming EXCEPT ![c] = streaming[p]]
    /\ UNCHANGED heap

\* A thread that starts in a copy of the Context of the flow starting it.
SpawnThreadInherits(p, c) ==
    /\ Running(p)
    /\ status[c] = "new"
    /\ \A d \in Flows : status[d] = "new" => c <= d
    /\ status' = [status EXCEPT ![c] = "thread"]
    /\ logctx' = [logctx EXCEPT ![c] = logctx[p]]
    /\ streaming' = [streaming EXCEPT ![c] = streaming[p]]
    /\ UNCHANGED heap

\* threading.Thread(target=...).start() in flow p: thread c runs in a new,
\* empty Context, where each ContextVar has its default
SpawnThread(p, c) ==
    /\ Running(p)
    /\ status[c] = "new"
    /\ \A d \in Flows : status[d] = "new" => c <= d
    /\ status' = [status EXCEPT ![c] = "thread"]
    /\ logctx' = [logctx EXCEPT ![c] = NoneRef]
    /\ streaming' = [streaming EXCEPT ![c] = FALSE]
    /\ UNCHANGED heap

\* A sub-flow ends: its Context is discarded.
FinishTask(c) ==
    /\ c # Root
    /\ Running(c)
    /\ status' = [status EXCEPT ![c] = "done"]
    /\ streaming' = [streaming EXCEPT ![c] = FALSE]
    /\ LET col == Collected([logctx EXCEPT ![c] = NoneRef], heap)
       IN  /\ logctx' = col.lc
           /\ heap' = col.hp

\* Any operation of the store made by flow f, with keys among K
CtxOp(f, K) ==
    \/ \E kwargs \in Kwargs(K) : set_context(f, kwargs)
    \/ \E data \in DataDicts(K) : set_context_dict(f, data)
    \/ \E keys \in KeyTuples(K) : remove_context(f, keys)
    \/ clear_context(f)
    \/ \E b \in BOOLEAN : set_streaming(f, b)

InitCtx ==
    /\ status = [f \in Flows |-> IF f = Root THEN "run" ELSE "new"]
    /\ logctx = [f \in Flows |-> NoneRef]
    /\ streaming = [f \in Flows |-> FALSE]
    /\ heap = [r \in Refs |-> EmptyDict]

(***************************************************************************)
(* config.py: LogConfig                                                    *)
(***************************************************************************)
\* load_config() with no environment variable set
DefaultConfig ==
    [level |-> "INFO", logger_name |-> "app",
     console_enabled |-> TRUE, console_format |-> "text",
     text_file_enabled |-> TRUE, json_file_enabled |-> TRUE,
     rotation_when |-> "MIDNIGHT", rotation_interval |-> 1,
     rotation_backup_count |-> 7,
     sanitize_extra |-> TRUE, stream_safe |-> TRUE, json_ts_key |-> "ts"]

\* another value of each field an environment variable can set
OtherConfig ==
    [level |-> "ERROR", logger_name |-> "svc",
     console_enabled |-> FALSE, console_format |-> "json",
     text_file_enabled |-> FALSE, json_file_enabled |-> FALSE,
     rotation_when |-> "S", rotation_interval |-> 2,
     rotation_backup_count |-> 0,
     sanitize_extra |-> FALSE, stream_safe |-> FALSE, json_ts_key |-> "level"]

\* The configurations that differ from the default in at most n of the
\* fields F
Configs(F, n) ==
    {[x \in DOMAIN DefaultConfig |-> IF x \in D THEN OtherConfig[x] ELSE DefaultConfig[x]] :
        D \in {E \in SUBSET F : Cardinality(E) <= n}}

LevelNames == {"DEBUG", "INFO", "WARNING", "ERROR", "CRITICAL"}
LevelNo == [DEBUG |-> 10, INFO |-> 20, WARNING |-> 30, ERROR |-> 40, CRITICAL |-> 50]

(***************************************************************************)
(* handlers.py: build_handlers                                             *)
(***************************************************************************)
TextFormatter == [kind |-> "text"]
JsonFormatter(ts_key) == [kind |-> "json", ts_key |-> ts_key]

StreamSafeConsoleHandler(cfg) ==
    [kind |-> "console", level |-> cfg.level,
     formatter |-> IF cfg.console_format = "json"
                   THEN JsonFormatter(cfg.json_ts_key) ELSE TextFormatter,
     stream_safe |-> cfg.stream_safe]

\* logging.handlers._MIDNIGHT, the length of a day, in ticks
_MIDNIGHT == 2

\* TimedRotatingFileHandler.interval: the unit of `when` times the interval
\* asked for
Interval(when, interval) == (IF when = "MIDNIGHT" THEN _MIDNIGHT ELSE 1) * interval

\* TimedRotatingFileHandler.computeRollover (no daylight-saving shift between
\* the two times): the next midnight, or one interval from t
computeRollover(h, t) ==
    IF h.when = "MIDNIGHT" THEN t + (_MIDNIGHT - (t % _MIDNIGHT))
    ELSE t + Interval(h.when, h.interval)

\* The handler as built at time `now`, its file not existing before
TimedRotatingFileHandler(kind, cfg, formatter) ==
    LET h == [kind |-> kind, level |-> cfg.level, formatter |-> formatter,
              when |-> cfg.rotation_when, interval |-> cfg.rotation_interval,
              backupCount |-> cfg.rotation_backup_count]
    IN  h @@ [rolloverAt |-> computeRollover(h, now)]

IsFile(h) == h.kind # "console"

shouldRollover(h, t) == t >= h.rolloverAt

\* time.strftime(self.suffix, ...) of time t: the day for MIDNIGHT, the
\* second for S
Suffix(h, t) == IF h.when = "MIDNIGHT" THEN t \div _MIDNIGHT ELSE t

\* A getFilesToDelete that finds nothing to delete.
getFilesToDelete_none(archives, backupCount) == {}

\* TimedRotatingFileHandler.getFilesToDelete: all but the backupCount newest
getFilesToDelete(archives, backupCount) ==
    IF Cardinality(archives) < backupCount THEN {}
    ELSE {a \in archives : Cardinality({b \in archives : b > a}) >= backupCount}

\* doRollover, the archives after it: the file is renamed to the suffix of
\* the start of its interval (replacing an archive of that name)
RolledArchives(h, archives) ==
    LET dfn == Suffix(h, h.rolloverAt - Interval(h.when, h.interval))
        renamed == archives \cup {dfn}
    IN  IF h.backupCount > 0
        THEN renamed \ getFilesToDelete(renamed, h.backupCount)
        ELSE renamed

\* doRollover, the loop `while newRolloverAt <= currentTime`
RECURSIVE NewRolloverAt(_, _, _)
NewRolloverAt(h, at, t) ==
    IF at <= t THEN NewRolloverAt(h, at + Interval(h.when, h.interval), t) ELSE at

\* doRollover, the handler after it
Rolled(h, t) == [h EXCEPT !.rolloverAt = NewRolloverAt(h, computeRollover(h, t), t)]

build_handlers(cfg) ==
    (IF cfg.console_enabled THEN <<StreamSafeConsoleHandler(cfg)>> ELSE <<>>)
    \o (IF cfg.text_file_enabled
        THEN <<TimedRotatingFileHandler("text_file", cfg, TextFormatter)>> ELSE <<>>)
    \o (IF cfg.json_file_enabled
        THEN <<TimedRotatingFileHandler("json_file", cfg, JsonFormatter(cfg.json_ts_key))>>
        ELSE <<>>)

(***************************************************************************)
(* logger.py: configure_logging and SafeLogger                             *)
(***************************************************************************)
LoggerNames == {DefaultConfig.logger_name, OtherConfig.logger_name}

\* logging.getLogger(name) of a name never configured
NewLogger == [level |-> "NOTSET", propagate |-> TRUE, handlers |-> <<>>]

\* A configure_logging that attaches the handlers on every call.
ConfiguredAlwaysAdds(lg, cfg) ==
    [level |-> cfg.level, propagate |-> FALSE,
     handlers |-> lg.handlers \o build_handlers(cfg)]

\* The logger lg after configure_logging(cfg)
Configured(lg, cfg) ==
    [level |-> cfg.level, propagate |-> FALSE,
     handlers |-> IF lg.handlers = <<>> THEN build_handlers(cfg) ELSE lg.handlers]

SafeLogger(cfg) == [name |-> cfg.logger_name, sanitize_extra |-> cfg.sanitize_extra]

configure_logging(cfg) ==
    /\ loggers' = [loggers EXCEPT ![cfg.logger_name] = Configured(@, cfg)]
    /\ log' = SafeLogger(cfg)
    /\ UNCHANGED <<status, logctx, streaming, heap, now, disk>>

\* The state once the module is imported: log = configure_logging() under cfg
InitLogging(cfg) ==
    /\ now = 0
    /\ disk = [text_file |-> {}, json_file |-> {}]
    /\ loggers = [n \in LoggerNames |->
                    IF n = cfg.logger_name THEN Configured(NewLogger, cfg) ELSE NewLogger]
    /\ log = SafeLogger(cfg)

\* The attributes of a new logging.LogRecord
StdAttrs ==
    {"name", "msg", "args", "levelname", "levelno", "pathname", "filename",
     "module", "exc_info", "exc_text", "stack_info", "lineno", "funcName",
     "created", "msecs", "relativeCreated", "thread", "threadName",
     "processName", "process"}

_STANDARD_KEYS == StdAttrs \cup {"message", "asctime", "exc_info", "stack_info"}

\* The dict a sequence of <<key, value>> items builds: a later item replaces
\* an earlier one of the same key
RECURSIVE DictOf(_)
DictOf(items) ==
    IF items = <<>> THEN EmptyDict
    ELSE LET n == Len(items)
             k == items[n][1]
             v == items[n][2]
         IN  (k :> v) @@ DictOf(SubSeq(items, 1, n - 1))

\* The items of the loop of _sanitize_extra, in order
Renamed(extra) ==
    [i \in 1..Len(extra) |->
        IF extra[i][1] \in _STANDARD_KEYS
        THEN <<extra[i][1] \o "_extra", extra[i][2]>>
        ELSE extra[i]]

\* A sanitizer that renames every key.
_sanitize_extra_renames_all(lg, extra) ==
    DictOf([i \in 1..Len(extra) |-> <<extra[i][1] \o "_extra", extra[i][2]>>])

\* SafeLogger._sanitize_extra. The extra mapping is the sequence of its items;
\* <<>> stands for both None and {} (`if not extra`), and the None returned
\* for them is the empty dict (logging treats both alike).
_sanitize_extra(lg, extra) ==
    IF extra = <<>> THEN EmptyDict
    ELSE IF ~lg.sanitize_extra THEN DictOf(extra)
    ELSE DictOf(Renamed(extra))

Methods == {"debug", "info", "warning", "error", "critical", "exception"}
MethodLevel ==
    [debug |-> "DEBUG", info |-> "INFO", warning |-> "WARNING", error |-> "ERROR",
     critical |-> "CRITICAL", exception |-> "ERROR"]
\* the line of logger.py each method calls the logger from
MethodLine ==
    [debug |-> "38", info |-> "41", warning |-> "44", error |-> "47",
     critical |-> "50", exception |-> "53"]

\* Logger.makeRecord refuses an extra key that is an attribute of the record
\* or one of message and asctime: KeyError
MakeRecordRaises(extra) ==
    \E k \in DOMAIN extra : k \in StdAttrs \cup {"message", "asctime"}

\* record.__dict__ of the LogRecord of a call
MakeRecord(name, method, msg, extra) ==
    extra @@
    [name |-> name, msg |-> msg, args |-> "()",
     levelname |-> MethodLevel[method], levelno |-> MethodLevel[method],
     pathname |-> "fast_api_logger/logger.py", filename |-> "logger.py",
     module |-> "logger",
     exc_info |-> IF method = "exception" THEN "exc" ELSE None,
     exc_text |-> None, stack_info |-> None,
     lineno |-> MethodLine[method], funcName |-> method,
     created |-> "<t>", msecs |-> "<t>", relativeCreated |-> "<t>",
     thread |-> "<thread>", threadName |-> "<thread>",
     processName |-> "<process>", process |-> "<process>"]

(***************************************************************************)
(* formatters.py                                                           *)
(***************************************************************************)
Ts == "<ts>"
Traceback == "Traceback (most recent call last): ..."

\* A value json.dumps cannot serialize is written "obj:" and its str();
\* every other value is a str or an int, written as printed.
IsObject(v) == v \in {"obj:<S>"}
StrOf(v) == IF v = "obj:<S>" THEN "<S>" ELSE v

_safe_json_value(v) == IF IsObject(v) THEN StrOf(v) ELSE v

_standard_logrecord_keys == StdAttrs

\* every key a record or a context of the model can hold, as sorted() orders
\* them
SortedKeys ==
    <<"a", "a_extra", "asctime", "exc", "func", "level", "level_extra", "line",
      "logger", "message", "module", "name", "name_extra", "name_extra_extra", "ts">>

Sorted(keys) == SelectSeq(SortedKeys, LAMBDA k : k \in keys)

RECURSIVE Join(_, _)
Join(strs, sep) ==
    IF strs = <<>> THEN ""
    ELSE IF Len(strs) = 1 THEN strs[1]
    ELSE strs[1] \o sep \o Join(Tail(strs), sep)

\* logging.Formatter.format: it stores message and asctime on the record
FormattedRecord(rec) == ("message" :> rec["msg"]) @@ ("asctime" :> Ts) @@ rec

\* A text formatter whose context fields replace the extra fields.
TextTailContextWins(rec, ctx) ==
    LET keys == DOMAIN rec \ (_standard_logrecord_keys \cup {"message", "asctime"})
        extras == [k \in keys \cup DOMAIN ctx |->
                      IF k \in DOMAIN ctx THEN ctx[k] ELSE rec[k]]
    IN  [k \in DOMAIN extras |-> StrOf(extras[k])]

\* TextFormatter.format, the fields of the tail: rec is the record after
\* logging.Formatter.format, ctx is get_context()
TextTail(rec, ctx) ==
    LET keys == DOMAIN rec \ (_standard_logrecord_keys \cup {"message", "asctime"})
        extras == [k \in keys \cup DOMAIN ctx |->
                      IF k \in keys THEN rec[k] ELSE ctx[k]]
    IN  [k \in DOMAIN extras |-> StrOf(extras[k])]

\* TextFormatter.format: the line and the fields of its tail
TextFormatter_format(rec, ctx) ==
    LET r == FormattedRecord(rec)
        base == "[" \o r["asctime"] \o "] [" \o r["levelname"] \o "] " \o r["message"]
                \o (IF r["exc_info"] # None THEN "\n" \o Traceback ELSE "")
        tail == TextTail(r, ctx)
        items == [i \in 1..Len(Sorted(DOMAIN tail)) |->
                     Sorted(DOMAIN tail)[i] \o "=" \o tail[Sorted(DOMAIN tail)[i]]]
    IN  [kind |-> "text", tail |-> tail,
         text |-> IF tail # EmptyDict THEN base \o " | " \o Join(items, " ") ELSE base]

\* The base fields of JsonFormatter.format: a dict display, a later key
\* replaces an equal earlier one
JsonBase(rec, ts_key) ==
    [level |-> rec["levelname"], logger |-> rec["name"], message |-> rec["msg"],
     module |-> rec["module"], func |-> rec["funcName"], line |-> rec["lineno"]]
    @@ (ts_key :> Ts)

\* A JSON formatter that adds the context after the extra fields.
JsonFormatterContextLast(rec, ctx, ts_key) ==
    LET base == JsonBase(rec, ts_key)
        keys == DOMAIN rec \ (_standard_logrecord_keys \cup {"message"})
        extras == [k \in keys |-> _safe_json_value(rec[k])]
    IN  [kind |-> "json",
         obj |-> [k \in DOMAIN ctx |-> _safe_json_value(ctx[k])] @@ extras @@ base]

\* A JSON formatter that leaves the line number out.
JsonFormatterNoLine(rec, ctx, ts_key) ==
    LET base == JsonBase(rec, ts_key)
        keys == DOMAIN rec \ (_standard_logrecord_keys \cup {"message"})
        extras == [k \in keys |-> _safe_json_value(rec[k])]
        withctx == base @@ [k \in DOMAIN ctx |-> _safe_json_value(ctx[k])]
        data == extras @@ withctx
    IN  [kind |-> "json", obj |-> [k \in DOMAIN data \ {"line"} |-> data[k]]]

\* JsonFormatter.format: the object json.dumps writes. rec is the record as
\* the handlers before this one left it, ctx is get_context()
JsonFormatter_format(rec, ctx, ts_key) ==
    LET base == JsonBase(rec, ts_key)
        withctx == base @@ [k \in DOMAIN ctx |-> _safe_json_value(ctx[k])]
        keys == DOMAIN rec \ (_standard_logrecord_keys \cup {"message"})
        extras == [k \in keys |-> _safe_json_value(rec[k])]
        exc == IF rec["exc_info"] # None THEN ("exc" :> Traceback) ELSE EmptyDict
    IN  [kind |-> "json", obj |-> exc @@ extras @@ withctx]

(***************************************************************************)
(* A logging call                                                          *)
(***************************************************************************)
NotWritten == [kind |-> "none"]

\* StreamSafeConsoleHandler.emit returns before writing
Suppressed(h, f) == h.kind = "console" /\ h.stream_safe /\ is_streaming(f)

\* Logger.callHandlers: what each handler of hs writes for the record, in
\* order. A text formatter leaves message and asctime on the record, which
\* the handlers after it see.
RECURSIVE CallHandlers(_, _, _)
CallHandlers(hs, rec, f) ==
    IF hs = <<>> THEN <<>>
    ELSE LET h == Head(hs)
             written == /\ LevelNo[rec["levelname"]] >= LevelNo[h.level]
                        /\ ~Suppressed(h, f)
             text == h.formatter.kind = "text"
             out == IF ~written THEN NotWritten
                    ELSE IF text THEN TextFormatter_format(rec, get_context(f))
                    ELSE JsonFormatter_format(rec, get_context(f), h.formatter.ts_key)
         IN  <<out>> \o CallHandlers(Tail(hs),
                                     IF written /\ text THEN FormattedRecord(rec) ELSE rec,
                                     f)

\* log.<method>(msg, extra=extra) in flow f: what the call does
LogCall(f, method, msg, extra) ==
    LET lg == loggers[log.name]
        sanitized == _sanitize_extra(log, extra)
        enabled == LevelNo[MethodLevel[method]] >= LevelNo[lg.level]
        raised == enabled /\ MakeRecordRaises(sanitized)
    IN  [op |-> "log", flow |-> f, method |-> method, msg |-> msg, extra |-> extra,
         sanitized |-> sanitized, enabled |-> enabled, raised |-> raised,
         outs |-> IF enabled /\ ~raised
                  THEN CallHandlers(lg.handlers,
                                    MakeRecord(log.name, method, msg, sanitized), f)
                  ELSE [i \in 1..Len(lg.handlers) |-> NotWritten]]

\* BaseRotatingHandler.emit of the file handlers a record reaches: a handler
\* past its rollover time rolls over before it writes
Emitting(h, call) ==
    /\ IsFile(h)
    /\ call.enabled /\ ~call.raised
    /\ LevelNo[MethodLevel[call.method]] >= LevelNo[h.level]

HandlersAfter(hs, call) ==
    [i \in DOMAIN hs |->
        IF Emitting(hs[i], call) /\ shouldRollover(hs[i], now)
        THEN Rolled(hs[i], now) ELSE hs[i]]

DiskAfter(hs, call) ==
    [kind \in DOMAIN disk |->
        IF \E i \in DOMAIN hs : /\ hs[i].kind = kind
                                /\ Emitting(hs[i], call)
                                /\ shouldRollover(hs[i], now)
        THEN LET i == CHOOSE i \in DOMAIN hs :
                          /\ hs[i].kind = kind
                          /\ Emitting(hs[i], call)
                          /\ shouldRollover(hs[i], now)
             IN  RolledArchives(hs[i], disk[kind])
        ELSE disk[kind]]

\* What the handlers and the disk were before an operation
Files == [handlers |-> loggers[log.name].handlers, disk |-> disk]

Log(f, method, msg, extra) ==
    LET call == LogCall(f, method, msg, extra)
    IN  /\ Running(f)
        /\ last' = call @@ [before |-> Files]
        /\ loggers' = [loggers EXCEPT ![log.name].handlers = HandlersAfter(@, call)]
        /\ disk' = DiskAfter(loggers[log.name].handlers, call)
        /\ UNCHANGED <<status, logctx, streaming, heap, log, now>>

\* The clock advances; nothing else runs
Tick ==
    /\ now' = now + 1
    /\ last' = [op |-> "tick", before |-> Files]
    /\ UNCHANGED <<status, logctx, streaming, heap, loggers, log, disk>>

\* `last` holds what the last call did until the next operation. While the
\* clock stands still a call changes nothing but `last`, so every state of
\* the program is also reached with no call observed, and the calls are
\* explored from those states.
Unobserved == last = NoOp

\* The handlers of the facade's logger and what the last call wrote to each
Handlers == loggers[log.name].handlers
Written(i) == last.outs[i].kind # "none"

(***************************************************************************)
(* SpecLog: one flow logging under a configuration chosen at start         *)
(***************************************************************************)
MaxExtraLen == 2
MaxCfgChanges == 1

ExtraItems == ({"a", "name", "name_extra", "level"} \X {"x", "2"}) \cup {<<"a", "obj:<S>">>}

\* the extra mappings of at most n items
ExtraSeqs(n) ==
    UNION {{e \in [1..m -> ExtraItems] : \A i, j \in 1..m : i # j => e[i][1] # e[j][1]} :
              m \in 0..n}

\* the calls: info with every extra mapping of at most n items, the other
\* methods with those of at most one item
LogCalls(n) ==
    {c \in Methods \X ExtraSeqs(n) : c[1] = "info" \/ Len(c[2]) <= 1}

LogFields == {"level", "console_enabled", "console_format", "text_file_enabled",
              "json_file_enabled", "sanitize_extra", "stream_safe", "json_ts_key"}
LogKwargs == Dicts(CtxKeys, {"1"}) \ {EmptyDict}
Messages == {"hello"}

InitLog ==
    /\ InitCtx
    /\ \E cfg \in Configs(LogFields, MaxCfgChanges) : InitLogging(cfg)
    /\ last = NoOp

NextLog ==
    \/ \E kwargs \in LogKwargs :
          /\ set_context(Root, kwargs)
          /\ last' = NoOp
          /\ UNCHANGED logvars
    \/ /\ clear_context(Root)
       /\ last' = NoOp
       /\ UNCHANGED logvars
    \/ \E b \in BOOLEAN :
          /\ set_streaming(Root, b)
          /\ last' = NoOp
          /\ UNCHANGED logvars
    \/ \E call \in LogCalls(MaxExtraLen), msg \in Messages :
          /\ Unobserved
          /\ Log(Root, call[1], msg, call[2])

SpecLog == InitLog /\ [][NextLog]_vars

\* C1 (as claimed): with sanitization enabled, the sanitized mapping holds
\* the value of every reserved key k under k_extra, every other key with its
\* own value, and no reserved key.
C1_SanitizedKeepsEveryValue ==
    (last.op = "log" /\ log.sanitize_extra) =>
        LET given == DictOf(last.extra)
        IN  /\ \A k \in DOMAIN given :
                  LET to == IF k \in _STANDARD_KEYS THEN k \o "_extra" ELSE k
                  IN  to \in DOMAIN last.sanitized /\ last.sanitized[to] = given[k]
            /\ DOMAIN last.sanitized \cap _STANDARD_KEYS = {}

\* The call of the scenario of C2: info("hello", extra={"level": "x"}) with
\* sanitization enabled, level INFO, a text console, the flow not streaming
\* and no ambient field
C2_Scenario(i) ==
    /\ last.op = "log" /\ last.method = "info" /\ last.msg = "hello"
    /\ last.extra = << <<"level", "x">> >>
    /\ log.sanitize_extra
    /\ loggers[log.name].level = "INFO"
    /\ Handlers[i].kind = "console" /\ Handlers[i].formatter.kind = "text"
    /\ ~is_streaming(last.flow)
    /\ get_context(last.flow) = EmptyDict

\* C2 (amended): the call of the scenario writes the console line
\* "[<ts>] [INFO] hello | level=x": level is not a reserved name and keeps
\* its name.
C2_LevelKeepsItsName ==
    \A i \in DOMAIN Handlers :
        C2_Scenario(i) =>
            /\ last.outs[i].kind = "text"
            /\ last.outs[i].text = "[<ts>] [INFO] hello | level=x"

\* C2 (as claimed): the call of the scenario writes the console line
\* "[<ts>] [INFO] hello | level_extra=x".
C2_LevelRenamed ==
    \A i \in DOMAIN Handlers :
        C2_Scenario(i) =>
            /\ last.outs[i].kind = "text"
            /\ last.outs[i].text = "[<ts>] [INFO] hello | level_extra=x"

C2_Witness == \E i \in DOMAIN Handlers : C2_Scenario(i) /\ Written(i)

\* The value an output shows for key k
Emitted(out, k) == IF out.kind = "text" THEN out.tail[k] ELSE out.obj[k]
Emits(out, k) == k \in DOMAIN (IF out.kind = "text" THEN out.tail ELSE out.obj)

\* Every output the last call wrote shows, for each ambient key, the value
\* of that key in the fields `extra` when it has one
ExtraWins(extra) ==
    last.op = "log" =>
        \A i \in DOMAIN Handlers :
            Written(i) =>
                \A k \in DOMAIN get_context(last.flow) \cap DOMAIN extra :
                    /\ Emits(last.outs[i], k)
                    /\ Emitted(last.outs[i], k) = StrOf(extra[k])

JsonHolds(keys) ==
    last.op = "log" =>
        \A i \in DOMAIN Handlers :
            last.outs[i].kind = "json" =>
                keys \cup {Handlers[i].formatter.ts_key} \subseteq DOMAIN last.outs[i].obj

\* C8 (amended): every JSON object holds the configured timestamp key, level,
\* logger, message, module, func and line.
C8_BaseKeys == JsonHolds({"level", "logger", "message", "module", "func", "line"})

\* C8 (as claimed): every JSON object holds the configured timestamp key,
\* level, logger, message, module, function and line.
C8_BaseKeysFunction ==
    JsonHolds({"level", "logger", "message", "module", "function", "line"})

\* a JSON object was written with an ambient field and an extra field "level"
C8_Witness ==
    /\ last.op = "log"
    /\ get_context(last.flow) # EmptyDict
    /\ "level" \in DOMAIN last.sanitized
    /\ \E i \in DOMAIN Handlers : last.outs[i].kind = "json"

\* C9 (as claimed): debug, info, warning, error and critical never raise.
C9_NeverRaises ==
    (last.op = "log" /\ last.method # "exception") => ~last.raised

(***************************************************************************)
(* SpecCfg: successive configure_logging calls                             *)
(***************************************************************************)
MaxCfgFields == 4
CfgFields == {"level", "logger_name", "console_enabled", "text_file_enabled",
              "json_file_enabled"}

InitCfg ==
    /\ InitCtx
    /\ \E cfg \in Configs(CfgFields, MaxCfgFields) : InitLogging(cfg)
    /\ last = NoOp

NextCfg ==
    \E cfg \in Configs(CfgFields, MaxCfgFields) :
        /\ configure_logging(cfg)
        /\ last' = [op |-> "configure", cfg |-> cfg,
                    before |-> loggers[cfg.logger_name]]

SpecCfg == InitCfg /\ [][NextCfg]_vars

\* configure_logging has been called for the logger lg
WasConfigured(lg) == ~lg.propagate

\* C6 (as claimed): a configure_logging call on a logger name configured
\* before, with any configuration, leaves the attached sinks as they were.
C6_SecondCallKeepsSinks ==
    (last.op = "configure" /\ WasConfigured(last.before)) =>
        loggers[last.cfg.logger_name].handlers = last.before.handlers

\* C6 (amended): a configure_logging call on a logger that has at least one
\* sink attached leaves the attached sinks as they were; a call on a logger
\* with no sink attached attaches the sinks of its configuration; every call
\* sets the logger's level to that of its configuration.
C6_CallKeepsAttachedSinks ==
    last.op = "configure" =>
        LET lg == loggers[last.cfg.logger_name]
        IN  /\ last.before.handlers # <<>> => lg.handlers = last.before.handlers
            /\ last.before.handlers = <<>> => lg.handlers = build_handlers(last.cfg)
            /\ lg.level = last.cfg.level

\* a second call with a configuration of other sinks and another level on a
\* logger with sinks attached
C6_Witness ==
    /\ last.op = "configure"
    /\ WasConfigured(last.before)
    /\ last.before.handlers # <<>>
    /\ build_handlers(last.cfg) # last.before.handlers
    /\ build_handlers(last.cfg) # <<>>
    /\ last.cfg.level # last.before.level

(***************************************************************************)
(* SpecStream: concurrent flows setting their streaming flag and logging   *)
(***************************************************************************)
StreamFields == {"level", "console_enabled", "text_file_enabled",
                 "json_file_enabled", "sanitize_extra", "stream_safe"}
StreamCalls == {c \in LogCalls(MaxExtraLen) : Len(c[2]) <= 1}

InitStream ==
    /\ InitCtx
    /\ \E cfg \in Configs(StreamFields, MaxCfgChanges) : InitLogging(cfg)
    /\ last = NoOp

NextStream ==
    \/ \E f \in Flows, b \in BOOLEAN :
          /\ set_streaming(f, b) /\ last' = NoOp /\ UNCHANGED logvars
    \/ \E p, c \in Flows :
          /\ SpawnTask(p, c) /\ last' = NoOp /\ UNCHANGED logvars
    \/ \E c \in Flows :
          /\ FinishTask(c) /\ last' = NoOp /\ UNCHANGED logvars
    \/ \E f \in Flows, call \in StreamCalls, msg \in Messages :
          /\ Unobserved
          /\ Log(f, call[1], msg, call[2])

SpecStream == InitStream /\ [][NextStream]_vars

\* C7 (as claimed): a call at or above the configured level is written to
\* every file sink, and to the console exactly when stream_safe is disabled
\* or the calling flow is not streaming, whatever the flags of other flows.
C7_StreamingSuppression ==
    (last.op = "log" /\ last.enabled) =>
        \A i \in DOMAIN Handlers :
            IF IsFile(Handlers[i]) THEN Written(i)
            ELSE Written(i) <=> ~(Handlers[i].stream_safe /\ is_streaming(last.flow))

(***************************************************************************)
(* SpecRot: one flow logging while the clock advances                      *)
(***************************************************************************)
MaxTime == 6
MaxInterval == 2
MaxBackup == 2

RotConfigs ==
    {[DefaultConfig EXCEPT !.rotation_when = w, !.rotation_interval = iv,
                           !.rotation_backup_count = b, !.text_file_enabled = t] :
        w \in {"S", "MIDNIGHT"}, iv \in 1..MaxInterval, b \in 0..MaxBackup,
        t \in BOOLEAN}
RotMethods == {"debug", "info", "exception"}

InitRot ==
    /\ InitCtx
    /\ \E cfg \in RotConfigs : InitLogging(cfg)
    /\ last = NoOp

NextRot ==
    \/ now < MaxTime /\ Tick
    \/ \E method \in RotMethods, msg \in Messages : Log(Root, method, msg, <<>>)

SpecRot == InitRot /\ [][NextRot]_vars

\* The last call wrote to file sink i after its rollover time
WroteAfterBoundary(i) ==
    /\ last.op = "log"
    /\ IsFile(Handlers[i])
    /\ Written(i)
    /\ shouldRollover(last.before.handlers[i], now)

\* A write after the rollover time archives the file under the suffix of the
\* start of its interval and sets a later rollover time; any other call and a
\* tick of the clock leave the archives and the rollover time as they were.
RotatesOnWriteOnly ==
    /\ last.op = "log" =>
          \A i \in DOMAIN Handlers :
              LET h == last.before.handlers[i]
              IN  IF WroteAfterBoundary(i)
                  THEN /\ Suffix(h, h.rolloverAt - Interval(h.when, h.interval))
                             \in disk[h.kind]
                       /\ Handlers[i].rolloverAt > now
                  ELSE /\ Handlers[i] = h
                       /\ IsFile(h) => disk[h.kind] = last.before.disk[h.kind]
    /\ last.op = "tick" =>
          /\ disk = last.before.disk
          /\ Handlers = last.before.handlers

\* C10 (as claimed): a write after the boundary archives the file, rotation
\* happens only on a write, and the archives of a sink are never more than
\* rotation_backup_count.
C10_Rotation ==
    /\ RotatesOnWriteOnly
    /\ \A i \in DOMAIN Handlers :
          IsFile(Handlers[i]) =>
              Cardinality(disk[Handlers[i].kind]) <= Handlers[i].backupCount

\* C10 (amended): a write after the boundary archives the file and rotation
\* happens only on a write; when rotation_backup_count is positive the
\* archives of a sink are never more than it and a rotation deletes only
\* archives older than all those it keeps; when it is 0 no archive is ever
\* deleted.
C10_RotationPositiveCap ==
    /\ RotatesOnWriteOnly
    /\ \A i \in DOMAIN Handlers :
          (IsFile(Handlers[i]) /\ Handlers[i].backupCount > 0) =>
              Cardinality(disk[Handlers[i].kind]) <= Handlers[i].backupCount
    /\ last.op = "log" =>
          \A i \in DOMAIN Handlers :
              IsFile(Handlers[i]) =>
                  LET kind == Handlers[i].kind
                      deleted == last.before.disk[kind] \ disk[kind]
                  IN  /\ Handlers[i].backupCount = 0 => deleted = {}
                      /\ \A a \in deleted : \A b \in disk[kind] : a < b

\* a write after the boundary with as many archives as the cap deleted the
\* oldest archive
C10_Witness ==
    \E i \in DOMAIN Handlers :
        /\ WroteAfterBoundary(i)
        /\ Handlers[i].backupCount > 0
        /\ Cardinality(last.before.disk[Handlers[i].kind]) = Handlers[i].backupCount
        /\ last.before.disk[Handlers[i].kind] \ disk[Handlers[i].kind] # {}
        /\ Cardinality(disk[Handlers[i].kind]) = Handlers[i].backupCount

(***************************************************************************)
(* SpecDeploy: the /deploy handler (the root flow) and the threads it      *)
(* starts to log the output of the deploy script                           *)
(***************************************************************************)
\* ambient fields the handler sets (service and repo of service, client_ip,
\* github_event, repo, ref)
DeployKeys == {"service", "repo"}
DeployFields == {"console_format", "text_file_enabled", "json_file_enabled",
                 "stream_safe"}
DeployExtras == {<<>>, << <<"deploy_path", "x">> >>}
DeployMethods == {"info", "warning", "error", "exception"}
IsThread(f) == status[f] = "thread"

InitDeploy ==
    /\ InitCtx
    /\ \E cfg \in Configs(DeployFields, MaxCfgChanges) : InitLogging(cfg)
    /\ last = NoOp

NextDeploy ==
    \/ \E kwargs \in Kwargs(DeployKeys) :
          /\ set_context(Root, kwargs) /\ last' = NoOp /\ UNCHANGED logvars
    \/ /\ clear_context(Root)
       /\ UNCHANGED logvars
       /\ last' = [op |-> "clear_context", flow |-> Root,
                   others |-> [g \in Flows \ {Root} |-> Obs(g)]]
    \/ \E c \in Flows :
          /\ SpawnThread(Root, c) /\ last' = NoOp /\ UNCHANGED logvars
    \/ \E c \in Flows :
          /\ IsThread(c) /\ FinishTask(c) /\ last' = NoOp /\ UNCHANGED logvars
    \/ \E method \in DeployMethods, extra \in DeployExtras, msg \in Messages :
          /\ last.op # "log"
          /\ Log(Root, method, msg, extra)
    \/ \E c \in Flows, msg \in Messages :
          /\ last.op # "log"
          /\ IsThread(c)
          /\ Log(c, "info", msg, <<>>)

SpecDeploy == InitDeploy /\ [][NextDeploy]_vars

\* The keys an output shows
Shown(out) ==
    IF out.kind = "text" THEN DOMAIN out.tail
    ELSE IF out.kind = "json" THEN DOMAIN out.obj ELSE {}

\* C11: a thread the handler starts has an empty ambient context, every
\* record it logs shows none of the handler's ambient fields, before and
\* after the handler's clear_context(), and that clear_context() changes
\* nothing a thread observes.
C11_ThreadHasNoRequestContext ==
    /\ \A f \in Flows : IsThread(f) => get_context(f) = EmptyDict
    /\ (last.op = "log" /\ IsThread(last.flow)) =>
          \A i \in DOMAIN Handlers : Shown(last.outs[i]) \cap DeployKeys = {}
    /\ last.op = "clear_context" =>
          \A g \in Flows \ {Root} : Obs(g) = last.others[g]

\* a thread wrote a text line and a JSON object while the handler's context
\* held both fields
C11_Witness ==
    /\ last.op = "log"
    /\ IsThread(last.flow)
    /\ DOMAIN get_context(Root) = DeployKeys
    /\ \E i, j \in DOMAIN Handlers :
          last.outs[i].kind = "text" /\ last.outs[j].kind = "json"

(***************************************************************************)
(* SpecCtx: concurrent flows using the store; `last` records which flow    *)
(* acted and what the other flows observed before the step                 *)
(***************************************************************************)
InitFlows == InitCtx /\ InitLogging(DefaultConfig) /\ last = NoOp

NextFlows ==
    \/ \E f \in Flows :
          /\ CtxOp(f, FlowKeys)
          /\ UNCHANGED logvars
          /\ last' = [op |-> "ctx", flow |-> f,
                      others |-> [g \in Flows \ {f} |-> Obs(g)]]
    \/ \E p, c \in Flows :
          /\ SpawnTask(p, c)
          /\ UNCHANGED logvars
          /\ last' = [op |-> "spawn", flow |-> p, child |-> c,
                      others |-> [g \in Flows \ {c} |-> Obs(g)]]
    \/ \E c \in Flows :
          /\ FinishTask(c)
          /\ UNCHANGED logvars
          /\ last' = [op |-> "finish", flow |-> c,
                      others |-> [g \in Flows \ {c} |-> Obs(g)]]

SpecCtx == InitFlows /\ [][NextFlows]_vars

\* C4: a mutation of the store made by one flow is never observed by another
\* flow (parent, child or sibling), and a sub-flow starts with the values its
\* parent has at that moment.
C4_Isolation ==
    /\ last.op \in {"ctx", "finish"} =>
          \A g \in Flows \ {last.flow} : Obs(g) = last.others[g]
    /\ last.op = "spawn" =>
          /\ Obs(last.child) = last.others[last.flow]
          /\ \A g \in Flows \ {last.child} : Obs(g) = last.others[g]

\* three flows run, a sub-flow has just changed its context, and it now
\* differs from the non-empty contexts of the two others
C4_Witness ==
    /\ last.op = "ctx"
    /\ last.flow # Root
    /\ \E g, h \in Flows \ {last.flow} :
          /\ g # h
          /\ Running(g) /\ Running(h) /\ Running(last.flow)
          /\ get_context(g) # EmptyDict
          /\ get_context(h) # EmptyDict
          /\ get_context(last.flow) # EmptyDict
          /\ get_context(last.flow) # get_context(g)
          /\ get_context(last.flow) # get_context(h)
          /\ is_streaming(last.flow) # is_streaming(g)

(***************************************************************************)
(* SpecStore: one flow using the store; `last` records each call with the  *)
(* flow's observation before it                                            *)
(***************************************************************************)
InitStore == InitCtx /\ InitLogging(DefaultConfig) /\ last = NoOp

NextStore ==
    \/ \E kwargs \in Kwargs(CtxKeys) :
          /\ set_context(Root, kwargs)
          /\ UNCHANGED logvars
          /\ last' = [op |-> "set_context", kwargs |-> kwargs, before |-> Obs(Root)]
    \/ \E data \in DataDicts(CtxKeys) :
          /\ set_context_dict(Root, data)
          /\ UNCHANGED logvars
          /\ last' = [op |-> "set_context_dict", data |-> data, before |-> Obs(Root)]
    \/ \E keys \in KeyTuples(CtxKeys) :
          /\ remove_context(Root, keys)
          /\ UNCHANGED logvars
          /\ last' = [op |-> "remove_context", keys |-> keys, before |-> Obs(Root)]
    \/ /\ clear_context(Root)
       /\ UNCHANGED logvars
       /\ last' = [op |-> "clear_context", before |-> Obs(Root)]
    \/ \E b \in BOOLEAN :
          /\ set_streaming(Root, b)
          /\ UNCHANGED logvars
          /\ last' = [op |-> "set_streaming", flag |-> b, before |-> Obs(Root)]

SpecStore == InitStore /\ [][NextStore]_vars

Absent == "<absent>"
KeyState(d, k) == IF k \in DOMAIN d THEN d[k] ELSE Absent

\* C5: after set_context(**kwargs), a key passed with the value None is as it
\* was before the call (absent stays absent, a value stays that value), a key
\* passed with another value holds that value, and a key not passed is as it
\* was.
C5_NoneIsNoOp ==
    last.op = "set_context" =>
        \A k \in CtxKeys :
            KeyState(get_context(Root), k) =
                IF k \in DOMAIN last.kwargs /\ last.kwargs[k] # None
                THEN last.kwargs[k]
                ELSE KeyState(last.before.ctx, k)

\* set_context(a=None, name=v) was called while "a" held a value
C5_Witness ==
    /\ last.op = "set_context"
    /\ DOMAIN last.kwargs = {"a", "name"}
    /\ last.kwargs["a"] = None
    /\ last.kwargs["name"] # None
    /\ "a" \in DOMAIN last.before.ctx
    /\ KeyState(last.before.ctx, "name") # last.kwargs["name"]

(***************************************************************************)
(* SpecFrame: one flow using the store and logging; `last` records each    *)
(* call of the store with the flow's observation before it                 *)
(***************************************************************************)
FrameFields == {"stream_safe", "console_enabled", "console_format", "sanitize_extra"}

InitFrame ==
    /\ InitCtx
    /\ \E cfg \in Configs(FrameFields, MaxCfgChanges) : InitLogging(cfg)
    /\ last = NoOp

NextFrame ==
    \/ NextStore
    \/ \E call \in StreamCalls, msg \in Messages :
          /\ last.op # "log"
          /\ Log(Root, call[1], msg, call[2])

SpecFrame == InitFrame /\ [][NextFrame]_vars

\* The console handlers that honour the streaming flag
StreamSafeConsoles ==
    {i \in DOMAIN Handlers : Handlers[i].kind = "console" /\ Handlers[i].stream_safe}

\* C12: set_context, set_context_dict, remove_context and clear_context leave
\* is_streaming() as it was and set_streaming leaves get_context() as it was;
\* a streaming flow is still streaming after clear_context(), so a stream-safe
\* console still returns before writing, and no call of a streaming flow is
\* written to a stream-safe console.
C12_StoreAndFlagIndependent ==
    /\ last.op \in {"set_context", "set_context_dict", "remove_context", "clear_context"}
          => is_streaming(Root) = last.before.streaming
    /\ last.op = "set_streaming" =>
          /\ get_context(Root) = last.before.ctx
          /\ is_streaming(Root) = last.flag
    /\ (last.op = "clear_context" /\ last.before.streaming) =>
          /\ is_streaming(Root)
          /\ \A i \in StreamSafeConsoles : Suppressed(Handlers[i], Root)
    /\ (last.op = "log" /\ is_streaming(last.flow)) =>
          \A i \in StreamSafeConsoles : ~Written(i)

\* a streaming flow with fields in its context has called clear_context()
\* under a stream-safe console
C12_Witness ==
    /\ last.op = "clear_context"
    /\ last.before.streaming
    /\ last.before.ctx # EmptyDict
    /\ get_context(Root) = EmptyDict
    /\ StreamSafeConsoles # {}
====
